---------------------------- MODULE Spec2Model ----------------------------
(***************************************************************************)
(* A model of the image editor's App component (src/unnamed/part_000) and  *)
(* of the panels that call into it.                                        *)
(*                                                                         *)
(* React state is modelled by one variable per useState cell.  A handler   *)
(* is an operator from the state record of the render whose closure runs   *)
(* to the state record after its setState calls; an action applies one     *)
(* handler and then the effects of the following render.  An async         *)
(* handler is cut at each await: the part before the await is one action   *)
(* and leaves a record in `pending` that holds what the closure captured,  *)
(* the part after the await is the action Resolve.                         *)
(*                                                                         *)
(* A nullable cell holds None or Some(v).                                  *)
(***************************************************************************)
EXTENDS Integers, Sequences, FiniteSets, TLC

VARIABLES
    history,                \* File[]                      (part_000:41)
    historyIndex,           \* number                      (part_000:42)
    prompt,                 \* string                      (part_000:43)
    isLoading,              \* boolean                     (part_000:44)
    error,                  \* string | null               (part_000:45)
    editHotspot,            \* {x, y} | null               (part_000:46)
    displayHotspot,         \* {x, y} | null               (part_000:47)
    activeTab,              \* Tab                         (part_000:48)
    chatHistory,            \* Content[]                   (part_000:49)
    hasInitialAnalysisRun,  \* boolean                     (part_000:50)
    crop,                   \* Crop | undefined            (part_000:52)
    completedCrop,          \* PixelCrop | undefined       (part_000:53)
    maskDataUrl,            \* string | null               (part_000:59)
    currentImageUrl,        \* string | null               (part_000:68)
    originalImageUrl,       \* string | null               (part_000:69)
    objectUrls,             \* the browser's store of live object URLs
    quickEdit,              \* the cells of QuickEditPanel and its awaits
                            \*                  (QuickEditPanel.tsx:12-17)
    pending,                \* the awaits in flight, each with its closure
    clock,                  \* File objects created so far (their identity)
    tool,                   \* the tab whose tool this run's user works with
    lastOp,                 \* the handler that ran last, and how it ended
    probe                   \* what the last call was given from outside the
                            \* state, and what it computed on the way

vars == << history, historyIndex, prompt, isLoading, error, editHotspot,
           displayHotspot, activeTab, chatHistory, hasInitialAnalysisRun,
           crop, completedCrop, maskDataUrl, currentImageUrl,
           originalImageUrl, objectUrls, quickEdit, pending, clock, tool,
           lastOp, probe >>

-----------------------------------------------------------------------------
(* Bounds of the model. *)

\* File objects that can be created in one run (uploads and results).
MaxFiles == 3

\* awaits that can be outstanding at once (one is what the guards allow).
MaxInflight == 2

\* turns the conversation log can hold.
MaxChat == 3

\* File objects the user can hand to QuickEditPanel in one run.
MaxQuickFiles == 3

-----------------------------------------------------------------------------
(* null / undefined *)

None == {}

Some(v) == {v}

IsSome(o) == o # {}

TheValue(o) == CHOOSE v \in o : TRUE

-----------------------------------------------------------------------------
(* Strings that the code takes apart are sequences of tokens: one token    *)
(* per delimiter character and one per run of other characters.            *)

RECURSIVE SplitFrom(_, _, _)
\* str.split(sep): the pieces of str between occurrences of sep.
SplitFrom(str, sep, cur) ==
    IF str = << >> THEN << cur >>
    ELSE IF Head(str) = sep THEN << cur >> \o SplitFrom(Tail(str), sep, << >>)
    ELSE SplitFrom(Tail(str), sep, Append(cur, Head(str)))

Split(str, sep) == SplitFrom(str, sep, << >>)

IndexOf(str, tok) ==
    \* the first position of tok in str, 0 when there is none
    IF \E i \in 1..Len(str) : str[i] = tok
    THEN CHOOSE i \in 1..Len(str) : str[i] = tok /\ \A j \in 1..(i-1) : str[j] # tok
    ELSE 0

\* str.match(/:(.*?);/): None when there is no match, else Some(group 1).
\* The leftmost ":" that has a ";" after it starts the match and the lazy
\* group ends at the first ";" after it; if the first ":" has no ";" after
\* it then no later ":" has one either.
MimeMatch(str) ==
    LET c == IndexOf(str, ":")
        rest == IF c = 0 THEN << >> ELSE SubSeq(str, c + 1, Len(str))
        s == IndexOf(rest, ";")
    IN  IF c = 0 \/ s = 0 THEN None ELSE Some(SubSeq(rest, 1, s - 1))

\* The base64 text the model knows, with the bytes it encodes.
Base64Table == [ x \in {"QQ==", "Qg=="} |-> IF x = "QQ==" THEN "A" ELSE "B" ]

\* atob(str): None when it throws (a character that is not base64).
Atob(str) ==
    IF \A i \in 1..Len(str) : str[i] \in DOMAIN Base64Table
    THEN Some([ i \in 1..Len(str) |-> Base64Table[str[i]] ])
    ELSE None

Thrown(message) == [ ok |-> FALSE, message |-> message ]

Returned(value) == [ ok |-> TRUE, value |-> value ]

\* dataURLtoFile(dataurl, filename): the File's type and bytes, or the Error
\* thrown.
DataURLtoFile(dataurl) ==
    LET arr == Split(dataurl, ",")
    IN  IF Len(arr) < 2 THEN Thrown("Invalid data URL")
        ELSE LET mimeMatch == MimeMatch(arr[1])
             IN  IF mimeMatch = None \/ TheValue(mimeMatch) = << >>
                 THEN Thrown("Could not parse MIME type from data URL")
                 ELSE LET bstr == Atob(arr[2])
                      IN  IF bstr = None
                          THEN Thrown("InvalidCharacterError")
                          ELSE Returned([ type  |-> TheValue(mimeMatch),
                                          bytes |-> TheValue(bstr) ])

-----------------------------------------------------------------------------
(* Values the environment supplies. *)

\* What a generation collaborator can resolve with: a well-formed data URL
\* and three that dataURLtoFile rejects, one for each of its throws.
GoodUrl == << "data", ":", "image/png", ";", "base64", ",", "QQ==" >>

NoCommaUrl == << "data", ":", "image/png", ";", "base64" >>

NoMimeUrl == << "data", ":", ";", "base64", ",", "QQ==" >>

BadBase64Url == << "data", ":", "image/png", ";", "base64", ",", "!!" >>

ResultUrls == { GoodUrl, NoCommaUrl, NoMimeUrl, BadBase64Url }

\* What a collaborator can reject with: an Error, or a value that is none.
Rejections == { [ isError |-> TRUE,  message |-> "Request failed" ],
                [ isError |-> FALSE, message |-> "" ] }

\* What getDrawingAnalysis can resolve with.
Responses == { [ blockReason |-> "",       text |-> "feedback" ],
               [ blockReason |-> "SAFETY", text |-> "" ],
               [ blockReason |-> "",       text |-> "" ] }

Tabs == { "retouch", "magic-fill", "adjust", "styles", "crop", "analyze" }

\* The prompt field's texts: empty, blank, and a description.
Prompts == { << >>, << " " >>, << "a" >> }

\* The mask MaskingCanvas reports: its canvas serialised as a PNG data URL.
MaskUrl == << "data", ":", "image/png", ";", "base64", ",", "Qg==" >>

\* The selections ReactCrop reports: a region, and the empty one a plain
\* click leaves.
CropRects == { [ x |-> 1, y |-> 1, width |-> 2, height |-> 1 ],
               [ x |-> 1, y |-> 1, width |-> 0, height |-> 0 ] }

\* The displayed <img>: its natural and its laid-out size.
Img == [ naturalWidth |-> 4, naturalHeight |-> 2,
         clientWidth  |-> 2, clientHeight  |-> 2 ]

\* Where the user clicks, relative to the image's top-left corner.
Clicks == { [ x |-> 1, y |-> 1 ] }

InitialAnalysisMessage == "Please provide a brief, high-level analysis"

UserMessage == "What can I improve?"

-----------------------------------------------------------------------------
(* The state of one render, as the closures created in it see it. *)

Cur == [ history |-> history, historyIndex |-> historyIndex,
         prompt |-> prompt, isLoading |-> isLoading, error |-> error,
         editHotspot |-> editHotspot, displayHotspot |-> displayHotspot,
         activeTab |-> activeTab, chatHistory |-> chatHistory,
         hasInitialAnalysisRun |-> hasInitialAnalysisRun,
         crop |-> crop, completedCrop |-> completedCrop,
         maskDataUrl |-> maskDataUrl, currentImageUrl |-> currentImageUrl,
         originalImageUrl |-> originalImageUrl, objectUrls |-> objectUrls,
         pending |-> pending, clock |-> clock ]

\* history[historyIndex] ?? null
CurrentImage(s) ==
    IF s.historyIndex >= 0 /\ s.historyIndex < Len(s.history)
    THEN Some(s.history[s.historyIndex + 1]) ELSE None

\* history[0] ?? null
OriginalImage(s) == IF Len(s.history) > 0 THEN Some(s.history[1]) ELSE None

CanUndo(s) == s.historyIndex > 0

CanRedo(s) == s.historyIndex < Len(s.history) - 1

\* new File(...): the object gets the next identity; `from` records the
\* image it was made from (0: the user's own file).
NewFile(s, type, bytes, from) ==
    [ id |-> s.clock + 1, type |-> type, bytes |-> bytes, from |-> from ]

\* str.trim() on a token sequence whose blanks are " " tokens.
RECURSIVE TrimStart(_)
TrimStart(str) ==
    IF str # << >> /\ Head(str) = " " THEN TrimStart(Tail(str)) ELSE str

RECURSIVE TrimEnd(_)
TrimEnd(str) ==
    IF str # << >> /\ str[Len(str)] = " "
    THEN TrimEnd(SubSeq(str, 1, Len(str) - 1)) ELSE str

Trim(str) == TrimEnd(TrimStart(str))

\* seq without its element i
Without(seq, i) == SubSeq(seq, 1, i - 1) \o SubSeq(seq, i + 1, Len(seq))

\* err instanceof Error ? err.message : 'An unknown error occurred.'
ErrorMessage(err) ==
    IF err.isError THEN err.message ELSE "An unknown error occurred."

-----------------------------------------------------------------------------
(* The History Stack. *)

\* addImageToHistory on the history and cursor of the latest render, not on
\* those its closure holds.
AddImageToHistoryLatest(s, c, newImageFile) ==
    LET newHistory == Append(SubSeq(s.history, 1, s.historyIndex + 1),
                             newImageFile)
    IN  [ s EXCEPT !.history = newHistory,
                   !.historyIndex = Len(newHistory) - 1,
                   !.crop = None,
                   !.completedCrop = None,
                   !.maskDataUrl = None,
                   !.clock = newImageFile.id ]

\* addImageToHistory with the cursor set one past the new last index.
AddImageToHistoryPastEnd(s, c, newImageFile) ==
    LET newHistory == Append(SubSeq(c.history, 1, c.historyIndex + 1),
                             newImageFile)
    IN  [ s EXCEPT !.history = newHistory,
                   !.historyIndex = Len(newHistory),
                   !.crop = None,
                   !.completedCrop = None,
                   !.maskDataUrl = None,
                   !.clock = newImageFile.id ]

\* addImageToHistory, as the closure c (the render that created it) runs it
\* against the state s: history and historyIndex are read from c.
AddImageToHistory(s, c, newImageFile) ==
    LET newHistory == Append(SubSeq(c.history, 1, c.historyIndex + 1),
                             newImageFile)
    IN  [ s EXCEPT !.history = newHistory,
                   !.historyIndex = Len(newHistory) - 1,
                   !.crop = None,
                   !.completedCrop = None,
                   !.maskDataUrl = None,
                   !.clock = newImageFile.id ]

\* handleImageUpload that keeps the finished crop selection.
HandleImageUploadFnKeepsCrop(s, file) ==
    [ s EXCEPT !.error = None,
               !.history = << file >>,
               !.historyIndex = 0,
               !.editHotspot = None,
               !.displayHotspot = None,
               !.activeTab = "retouch",
               !.crop = None,
               !.chatHistory = << >>,
               !.hasInitialAnalysisRun = FALSE,
               !.maskDataUrl = None,
               !.clock = file.id ]

\* handleImageUpload(file)
HandleImageUploadFn(s, file) ==
    [ s EXCEPT !.error = None,
               !.history = << file >>,
               !.historyIndex = 0,
               !.editHotspot = None,
               !.displayHotspot = None,
               !.activeTab = "retouch",
               !.crop = None,
               !.completedCrop = None,
               !.chatHistory = << >>,
               !.hasInitialAnalysisRun = FALSE,
               !.maskDataUrl = None,
               !.clock = file.id ]

\* handleUndo without its canUndo test.
HandleUndoFnUnguarded(s) ==
    [ s EXCEPT !.historyIndex = s.historyIndex - 1,
               !.editHotspot = None,
               !.displayHotspot = None,
               !.maskDataUrl = None ]

HandleUndoFn(s) ==
    IF CanUndo(s)
    THEN [ s EXCEPT !.historyIndex = s.historyIndex - 1,
                    !.editHotspot = None,
                    !.displayHotspot = None,
                    !.maskDataUrl = None ]
    ELSE s

\* handleRedo that clears the natural-space hotspot and leaves the marker.
HandleRedoFnKeepsMarker(s) ==
    IF CanRedo(s)
    THEN [ s EXCEPT !.historyIndex = s.historyIndex + 1,
                    !.editHotspot = None,
                    !.maskDataUrl = None ]
    ELSE s

HandleRedoFn(s) ==
    IF CanRedo(s)
    THEN [ s EXCEPT !.historyIndex = s.historyIndex + 1,
                    !.editHotspot = None,
                    !.displayHotspot = None,
                    !.maskDataUrl = None ]
    ELSE s

\* handleReset that also drops the entries after the original image.
HandleResetFnTruncating(s) ==
    IF Len(s.history) > 0
    THEN [ s EXCEPT !.history = << s.history[1] >>,
                    !.historyIndex = 0,
                    !.error = None,
                    !.editHotspot = None,
                    !.displayHotspot = None,
                    !.chatHistory = << >>,
                    !.hasInitialAnalysisRun = FALSE,
                    !.maskDataUrl = None ]
    ELSE s

HandleResetFn(s) ==
    IF Len(s.history) > 0
    THEN [ s EXCEPT !.historyIndex = 0,
                    !.error = None,
                    !.editHotspot = None,
                    !.displayHotspot = None,
                    !.chatHistory = << >>,
                    !.hasInitialAnalysisRun = FALSE,
                    !.maskDataUrl = None ]
    ELSE s

HandleUploadNewFn(s) ==
    [ s EXCEPT !.history = << >>,
               !.historyIndex = -1,
               !.error = None,
               !.prompt = << >>,
               !.editHotspot = None,
               !.displayHotspot = None,
               !.chatHistory = << >>,
               !.maskDataUrl = None ]

-----------------------------------------------------------------------------
(* The Edit Orchestrator: submissions.  A handler's part before its await  *)
(* either reports a violated precondition or leaves a request in pending.  *)

\* An await in flight: what was sent, and the closure that continues.
Request(s, kind, phase, chat, message) ==
    [ kind |-> kind, phase |-> phase,
      image |-> TheValue(CurrentImage(s)),
      closure |-> [ history |-> s.history, historyIndex |-> s.historyIndex ],
      chat |-> chat, message |-> message ]

Resolved(value) == [ ok |-> TRUE, value |-> value ]

Rejected(err) == [ ok |-> FALSE, err |-> err ]

\* What `dataURLtoFile(await p, ...)` gives inside the try: the File's parts,
\* or the value the catch receives.
TryDecode(outcome) ==
    IF ~outcome.ok THEN Rejected(outcome.err)
    ELSE LET f == DataURLtoFile(outcome.value)
         IN  IF f.ok THEN Resolved(f.value)
             ELSE Rejected([ isError |-> TRUE, message |-> f.message ])

Submitting(s, req) ==
    [ s EXCEPT !.isLoading = TRUE, !.error = None,
               !.pending = Append(s.pending, req) ]

\* The catch without the finally: the error is recorded, isLoading stays.
FailedStuck(s, prefix, err) ==
    [ s EXCEPT !.error = Some(<< prefix, ErrorMessage(err) >>) ]

\* catch: setError(...); finally: setIsLoading(false)
Failed(s, prefix, err) ==
    [ s EXCEPT !.error = Some(<< prefix, ErrorMessage(err) >>),
               !.isLoading = FALSE ]

\* handleGenerate that tests the prompt for emptiness without trimming it.
HandleGenerateFnNoTrim(s) ==
    IF CurrentImage(s) = None
    THEN [ s EXCEPT !.error = Some(<< "No image loaded to edit." >>) ]
    ELSE IF s.prompt = << >>
    THEN [ s EXCEPT !.error =
             Some(<< "Please enter a description for your edit." >>) ]
    ELSE IF s.editHotspot = None
    THEN [ s EXCEPT !.error =
             Some(<< "Please click on the image to select an area to edit." >>) ]
    ELSE Submitting(s, Request(s, "edit", "generate", << >>, ""))

\* handleGenerate, to its await
HandleGenerateFn(s) ==
    IF CurrentImage(s) = None
    THEN [ s EXCEPT !.error = Some(<< "No image loaded to edit." >>) ]
    ELSE IF Trim(s.prompt) = << >>
    THEN [ s EXCEPT !.error =
             Some(<< "Please enter a description for your edit." >>) ]
    ELSE IF s.editHotspot = None
    THEN [ s EXCEPT !.error =
             Some(<< "Please click on the image to select an area to edit." >>) ]
    ELSE Submitting(s, Request(s, "edit", "generate", << >>, ""))

\* handleGenerate, from its await on
HandleGenerateThen(s, r, outcome) ==
    LET d == TryDecode(outcome)
    IN  IF d.ok
        THEN LET newImageFile == NewFile(s, d.value.type, d.value.bytes,
                                         r.image.id)
                 a == AddImageToHistory(s, r.closure, newImageFile)
             IN  [ a EXCEPT !.editHotspot = None,
                            !.displayHotspot = None,
                            !.isLoading = FALSE ]
        ELSE Failed(s, "Failed to generate the image.", d.err)

\* handleGenerateFill, to its await
HandleGenerateFillFn(s) ==
    IF CurrentImage(s) = None \/ s.maskDataUrl = None
    THEN [ s EXCEPT !.error =
             Some(<< "Please load an image and mask an area to fill." >>) ]
    ELSE LET maskFile == DataURLtoFile(TheValue(s.maskDataUrl))
         IN  IF maskFile.ok
             THEN Submitting(s, Request(s, "fill", "generate", << >>, ""))
             ELSE Failed(s, "Failed to generate the filled image.",
                         [ isError |-> TRUE, message |-> maskFile.message ])

\* handleGenerateFill, from its await on
HandleGenerateFillThen(s, r, outcome) ==
    LET d == TryDecode(outcome)
    IN  IF d.ok
        THEN LET newImageFile == NewFile(s, d.value.type, d.value.bytes,
                                         r.image.id)
                 a == AddImageToHistory(s, r.closure, newImageFile)
             IN  [ a EXCEPT !.isLoading = FALSE ]
        ELSE Failed(s, "Failed to generate the filled image.", d.err)

\* handleApplyStyle, to its await
HandleApplyStyleFn(s) ==
    IF CurrentImage(s) = None
    THEN [ s EXCEPT !.error =
             Some(<< "No image loaded to apply a style to." >>) ]
    ELSE Submitting(s, Request(s, "style", "generate", << >>, ""))

\* handleApplyStyle, from its await on
HandleApplyStyleThen(s, r, outcome) ==
    LET d == TryDecode(outcome)
    IN  IF d.ok
        THEN LET newImageFile == NewFile(s, d.value.type, d.value.bytes,
                                         r.image.id)
                 a == AddImageToHistory(s, r.closure, newImageFile)
             IN  [ a EXCEPT !.isLoading = FALSE ]
        ELSE Failed(s, "Failed to apply the style.", d.err)

\* handleApplyAdjustment, to its await
HandleApplyAdjustmentFn(s) ==
    IF CurrentImage(s) = None
    THEN [ s EXCEPT !.error =
             Some(<< "No image loaded to apply an adjustment to." >>) ]
    ELSE Submitting(s, Request(s, "adjust", "generate", << >>, ""))

\* handleApplyAdjustment, from its await on
HandleApplyAdjustmentThen(s, r, outcome) ==
    LET d == TryDecode(outcome)
    IN  IF d.ok
        THEN LET newImageFile == NewFile(s, d.value.type, d.value.bytes,
                                         r.image.id)
                 a == AddImageToHistory(s, r.closure, newImageFile)
             IN  [ a EXCEPT !.isLoading = FALSE ]
        ELSE Failed(s, "Failed to apply the adjustment.", d.err)

-----------------------------------------------------------------------------
(* The analysis conversation. *)

TextPart(text) == [ inlineData |-> FALSE, text |-> text ]

ImagePart == [ inlineData |-> TRUE, text |-> "" ]

UserContent(parts) == [ role |-> "user", parts |-> parts ]

ModelContent(text) == [ role |-> "model", parts |-> << TextPart(text) >> ]

\* handleSendMessage, to its first await: fileToPart for the first message,
\* getDrawingAnalysis otherwise.
HandleSendMessageFn(s, message) ==
    IF CurrentImage(s) = None
    THEN [ s EXCEPT !.error =
             Some(<< "Please upload an image to analyze." >>) ]
    ELSE IF Len(s.chatHistory) = 0
    THEN Submitting(s, Request(s, "analyze", "fileToPart", s.chatHistory,
                               message))
    ELSE LET newHistory ==
               Append(s.chatHistory, UserContent(<< TextPart(message) >>))
         IN  [ Submitting(s, Request(s, "analyze", "analysis", newHistory,
                                     message))
               EXCEPT !.chatHistory = newHistory ]

\* handleSendMessage, from `await fileToPart` to `await getDrawingAnalysis`.
\* It is this request that continues: it stays where it is in pending.
HandleSendMessagePart(s, i, r, outcome) ==
    IF outcome.ok
    THEN LET newHistory ==
               Append(r.chat,
                      UserContent(<< ImagePart, TextPart(r.message) >>))
         IN  [ s EXCEPT !.chatHistory = newHistory,
                        !.pending[i] = [ r EXCEPT !.phase = "analysis",
                                                  !.chat = newHistory ] ]
    ELSE LET f == Failed(s, "Could not process image for analysis.",
                         outcome.err)
         IN  [ f EXCEPT !.pending =
                 SubSeq(s.pending, 1, i - 1)
                   \o SubSeq(s.pending, i + 1, Len(s.pending)) ]

\* prev.slice(0, -1)
DropLast(seq) == IF seq = << >> THEN << >> ELSE SubSeq(seq, 1, Len(seq) - 1)

\* What the try block of handleSendMessage makes of the response: the text,
\* or the Error it throws.
AnalysisText(outcome) ==
    IF ~outcome.ok THEN Rejected(outcome.err)
    ELSE IF outcome.value.blockReason # ""
    THEN Rejected([ isError |-> TRUE, message |-> "Request was blocked." ])
    ELSE IF outcome.value.text = ""
    THEN Rejected([ isError |-> TRUE,
                    message |-> "The AI model did not return a text response." ])
    ELSE Resolved(outcome.value.text)

\* handleSendMessage, from `await getDrawingAnalysis` on
HandleSendMessageThen(s, r, outcome) ==
    LET d == AnalysisText(outcome)
    IN  IF d.ok
        THEN [ s EXCEPT !.chatHistory = Append(s.chatHistory,
                                               ModelContent(d.value)),
                        !.isLoading = FALSE ]
        ELSE [ Failed(s, "Failed to get analysis.", d.err)
               EXCEPT !.chatHistory = DropLast(s.chatHistory) ]

\* The effect that starts the initial analysis: it runs after every render
\* in which one of its dependencies changed, with that render's closures.
TriggerInitialAnalysis(s) ==
    IF /\ s.activeTab = "analyze"
       /\ ~s.isLoading
       /\ ~s.hasInitialAnalysisRun
       /\ Len(s.chatHistory) = 0
       /\ CurrentImage(s) # None
    THEN HandleSendMessageFn([ s EXCEPT !.hasInitialAnalysisRun = TRUE ],
                             InitialAnalysisMessage)
    ELSE s

-----------------------------------------------------------------------------
(* Object URLs (part_000:68-91, 399-409).                                  *)
(*                                                                         *)
(* URL.createObjectURL returns a string no earlier call returned.  The     *)
(* model names it by the least number no live URL carries: a revoked URL   *)
(* is held by nothing once the effect that revoked it has set its cell,    *)
(* so the program cannot tell a reused number from a new one.              *)

CreateObjectURL(s, file) ==
    LET taken == { u.id : u \in s.objectUrls }
        id == CHOOSE n \in 1..(Cardinality(taken) + 1) :
                  n \notin taken /\ \A m \in 1..(n - 1) : m \in taken
    IN  [ id |-> id, file |-> file ]

\* URL.revokeObjectURL(url); `url` is null or a URL.
RevokeObjectURL(s, url) == [ s EXCEPT !.objectUrls = @ \ url ]

\* The body of the effect on [currentImage] (part_000:73-79).
CurrentImageEffect(s) ==
    IF CurrentImage(s) # None
    THEN LET url == CreateObjectURL(s, TheValue(CurrentImage(s)))
         IN  [ s EXCEPT !.objectUrls = @ \cup { url },
                        !.currentImageUrl = Some(url) ]
    ELSE [ s EXCEPT !.currentImageUrl = None ]

\* The body of the effect on [originalImage] (part_000:84-90).
OriginalImageEffect(s) ==
    IF OriginalImage(s) # None
    THEN LET url == CreateObjectURL(s, TheValue(OriginalImage(s)))
         IN  [ s EXCEPT !.objectUrls = @ \cup { url },
                        !.originalImageUrl = Some(url) ]
    ELSE [ s EXCEPT !.originalImageUrl = None ]

\* The two effects after a render: `prev` is the render before, `s` this
\* one.  An effect runs when its dependency is another object than in the
\* render before; React first runs the cleanups of the effects that run
\* (each revokes the URL its effect created), then their bodies, in the
\* order of declaration.
ObjectUrlEffects(prev, s) ==
    LET currentChanged == CurrentImage(s) # CurrentImage(prev)
        originalChanged == OriginalImage(s) # OriginalImage(prev)
        a == IF currentChanged THEN RevokeObjectURL(s, prev.currentImageUrl)
             ELSE s
        b == IF originalChanged THEN RevokeObjectURL(a, prev.originalImageUrl)
             ELSE a
        c == IF currentChanged THEN CurrentImageEffect(b) ELSE b
    IN  IF originalChanged THEN OriginalImageEffect(c) ELSE c

\* The URL cells and the store once `h` at cursor `i` has been rendered from
\* the empty App.
Mounted(h, i) ==
    ObjectUrlEffects([ history |-> << >>, historyIndex |-> -1,
                       currentImageUrl |-> None, originalImageUrl |-> None ],
                     [ history |-> h, historyIndex |-> i, objectUrls |-> {},
                       currentImageUrl |-> None, originalImageUrl |-> None ])

\* handleDownload up to link.click(): the URL made for the link is live
\* while the browser starts the download.
HandleDownloadLink(s) ==
    IF CurrentImage(s) # None
    THEN Some(CreateObjectURL(s, TheValue(CurrentImage(s))))
    ELSE None

HandleDownloadFn(s) ==
    LET href == HandleDownloadLink(s)
        linked == [ s EXCEPT !.objectUrls = @ \cup href ]
    IN  RevokeObjectURL(linked, href)

-----------------------------------------------------------------------------
(* QuickEditPanel (src/components/QuickEditPanel.tsx).                     *)
(*                                                                         *)
(* The component's cells are the fields of `quickEdit`; a handler maps the *)
(* record of the cells, the awaits and the browser's URL store to the      *)
(* record after the call.                                                  *)

\* The cells after mounting (QuickEditPanel.tsx:12-17); `files` counts the
\* File objects the user has handed over.
QuickEditMount ==
    [ imageFile |-> None, imageUrl |-> None, prompt |-> << >>,
      isLoading |-> FALSE, error |-> None, resultImageUrl |-> None,
      pending |-> << >>, files |-> 0 ]

\* str.startsWith(prefix)
StartsWith(str, prefix) ==
    Len(str) >= Len(prefix) /\ SubSeq(str, 1, Len(prefix)) = prefix

\* The File objects a file input or a drop can carry.
QuickFile(q, type) ==
    [ id |-> q.files + 1, type |-> type, bytes |-> << "A" >>, from |-> 0 ]

QuickFileTypes == { << "image/", "png" >>, << "text/", "plain" >> }

\* handleFileSelect; `file` is null or a File.  The function it returns is
\* the one that would revoke the URL: QuickHandleFileSelectCleanup.
QuickHandleFileSelect(q, file) ==
    IF file = None THEN q
    ELSE IF ~StartsWith(TheValue(file).type, << "image/" >>)
    THEN [ q EXCEPT !.error = Some(<< "Please select an image file." >>) ]
    ELSE LET url == CreateObjectURL(q, TheValue(file))
         IN  [ q EXCEPT !.error = None,
                        !.resultImageUrl = None,
                        !.imageFile = file,
                        !.objectUrls = @ \cup { url },
                        !.imageUrl = Some(url) ]

\* handleFileChange and handleDrop: both call handleFileSelect and drop
\* what it returns; nothing calls the returned function.
QuickHandleFileChange(q, file) == QuickHandleFileSelect(q, file)

\* handleGenerate, to its await: the request holds the imageFile and the
\* prompt of the render whose closure runs.
QuickHandleGenerateFn(q) ==
    IF q.imageFile = None \/ Trim(q.prompt) = << >>
    THEN [ q EXCEPT !.error =
             Some(<< "Please provide an image and a prompt." >>) ]
    ELSE [ q EXCEPT !.isLoading = TRUE, !.error = None,
                    !.resultImageUrl = None,
                    !.pending = Append(@, [ imageFile |-> TheValue(q.imageFile),
                                            prompt |-> q.prompt ]) ]

\* What generateStyledImage can settle with for request r: the data URL of
\* the styled copy of the image it was sent, or a rejection.
StyledImageUrl(r) == [ styled |-> r.imageFile, prompt |-> r.prompt ]

QuickOutcomes(r) ==
    { Resolved(StyledImageUrl(r)) } \cup { Rejected(e) : e \in Rejections }

\* handleGenerate, from its await on; request i has settled.
QuickHandleGenerateThen(q, i, outcome) ==
    LET rest == [ q EXCEPT !.pending = Without(q.pending, i) ]
    IN  IF outcome.ok
        THEN [ rest EXCEPT !.resultImageUrl = Some(outcome.value),
                           !.isLoading = FALSE ]
        ELSE [ rest EXCEPT !.error =
                 Some(<< "Failed to generate the image. ",
                         ErrorMessage(outcome.err) >>),
                           !.isLoading = FALSE ]

-----------------------------------------------------------------------------
(* Hotspot and crop. *)

\* A JS number that Math.round returned: an integer, or NaN or Infinity.
Finite(n) == [ kind |-> "finite", n |-> n ]

NaN == [ kind |-> "NaN", n |-> 0 ]

Infinity == [ kind |-> "Infinity", n |-> 0 ]

\* The scale taken the wrong way round: client / natural.
ScaleSwapped(offset, natural, client) ==
    IF client = 0
    THEN IF natural = 0 \/ offset = 0 THEN NaN ELSE Infinity
    ELSE Finite((2 * offset * client + natural) \div (2 * natural))

\* Math.floor in the place of Math.round.
ScaleFloor(offset, natural, client) ==
    IF client = 0
    THEN IF natural = 0 \/ offset = 0 THEN NaN ELSE Infinity
    ELSE Finite((offset * natural) \div client)

\* Math.round(offset * (natural / client)): the nearest integer, a half
\* rounded up; a client size of 0 makes the scale Infinity or NaN.
ScaleRound(offset, natural, client) ==
    IF client = 0
    THEN IF natural = 0 \/ offset = 0 THEN NaN ELSE Infinity
    ELSE Finite((2 * offset * natural + client) \div (2 * client))

\* handleImageClick(e), e at (offsetX, offsetY) on the image img
HandleImageClickFn(s, img, offsetX, offsetY) ==
    IF s.activeTab # "retouch" THEN s
    ELSE [ s EXCEPT
             !.displayHotspot = Some([ x |-> offsetX, y |-> offsetY ]),
             !.editHotspot =
               Some([ x |-> ScaleRound(offsetX, img.naturalWidth,
                                       img.clientWidth),
                      y |-> ScaleRound(offsetY, img.naturalHeight,
                                       img.clientHeight) ]) ]

\* imgRef.current: the <img> of the editor, which renderContent mounts only
\* when no error is shown and there is an image to show.
ImgRef(s) == IF s.error = None /\ CurrentImage(s) # None THEN Some(Img) ELSE None

\* canvas.toDataURL('image/png'): a canvas without area serialises as
\* "data:,".
CanvasToDataURL(width, height) ==
    IF width = 0 \/ height = 0 THEN << "data", ":", "," >>
    ELSE << "data", ":", "image/png", ";", "base64", ",", "Qg==" >>

\* A JS number that need not be an integer, as a ratio of two integers.
Ratio(num, den) == [ num |-> num, den |-> den ]

\* canvas.width = v: the attribute is an unsigned long, the assignment drops
\* the fraction of v (v >= 0).
ToUnsignedLong(v) == v.num \div v.den

\* window.devicePixelRatio || 1
PixelRatio(devicePixelRatio) ==
    IF devicePixelRatio.num = 0 THEN Ratio(1, 1) ELSE devicePixelRatio

\* The canvas sized by the selection scaled to natural pixels, not by the
\* pixel ratio.
CropCanvasNatural(c, image, devicePixelRatio) ==
    [ width  |-> ToUnsignedLong(Ratio(c.width * image.naturalWidth,
                                      image.clientWidth)),
      height |-> ToUnsignedLong(Ratio(c.height * image.naturalHeight,
                                      image.clientHeight)),
      sx |-> Ratio(c.x * image.naturalWidth, image.clientWidth),
      sy |-> Ratio(c.y * image.naturalHeight, image.clientHeight),
      sw |-> Ratio(c.width * image.naturalWidth, image.clientWidth),
      sh |-> Ratio(c.height * image.naturalHeight, image.clientHeight) ]

\* The canvas of handleApplyCrop when toDataURL is called: its size, and the
\* region of the image (in natural pixels) that drawImage copied into it.
\* image.width and image.height are the rendered size of the <img>.
CropCanvas(c, image, devicePixelRatio) ==
    LET pixelRatio == PixelRatio(devicePixelRatio)
    IN  [ width  |-> ToUnsignedLong(Ratio(c.width * pixelRatio.num,
                                          pixelRatio.den)),
          height |-> ToUnsignedLong(Ratio(c.height * pixelRatio.num,
                                          pixelRatio.den)),
          sx |-> Ratio(c.x * image.naturalWidth, image.clientWidth),
          sy |-> Ratio(c.y * image.naturalHeight, image.clientHeight),
          sw |-> Ratio(c.width * image.naturalWidth, image.clientWidth),
          sh |-> Ratio(c.height * image.naturalHeight, image.clientHeight) ]

\* handleApplyCrop(), with imgRef.current, the device's pixel ratio and
\* whether the canvas gives a 2d context.  A throw of dataURLtoFile leaves
\* the handler before any setState call.
HandleApplyCropFn(s, image, devicePixelRatio, hasContext) ==
    IF s.completedCrop = None \/ image = None
    THEN [ s EXCEPT !.error = Some(<< "Please select an area to crop." >>) ]
    ELSE IF ~hasContext
    THEN [ s EXCEPT !.error = Some(<< "Could not process the crop." >>) ]
    ELSE LET canvas == CropCanvas(TheValue(s.completedCrop), TheValue(image),
                                  devicePixelRatio)
             f == DataURLtoFile(CanvasToDataURL(canvas.width, canvas.height))
         IN  IF f.ok
             THEN AddImageToHistory(s, s,
                    NewFile(s, f.value.type, f.value.bytes,
                            TheValue(CurrentImage(s)).id))
             ELSE s

\* window.devicePixelRatio: unset (0), 1, 2, and the 1.5 of a scaled display.
PixelRatios == { Ratio(0, 1), Ratio(1, 1), Ratio(2, 1), Ratio(3, 2) }

-----------------------------------------------------------------------------
(* What renderContent shows: the error screen while an error is set, else  *)
(* the start screen while there is no image, else the editor.              *)

ErrorScreenShown(s) == s.error # None

StartScreenShown(s) == s.error = None /\ CurrentImage(s) = None

EditorShown(s) == s.error = None /\ CurrentImage(s) # None

-----------------------------------------------------------------------------
(* When the panels let the user submit. *)

\* StylePanel with its buttons never disabled.
StylePanelAlwaysEnabled(s) == TRUE

\* StylePanel: every style button is disabled while isLoading.
StylePanelEnabled(s) == ~s.isLoading

\* AnalyzePanel.handleSubmit: input.trim() && !isLoading.
AnalyzePanelEnabled(s) == ~s.isLoading

\* The retouch form, MagicFillPanel, AdjustmentPanel and CropPanel are not
\* among the sources; the design (section 4.5) has every control that
\* commits an edit disabled while a submission is in flight.
RetouchFormEnabled(s) == ~s.isLoading

MagicFillPanelEnabled(s) == ~s.isLoading

AdjustmentPanelEnabled(s) == ~s.isLoading

CropPanelEnabled(s) == ~s.isLoading

\* The JSX that mounts the panels is not among the sources either: the
\* AnalyzePanel is on screen while its tab is the active one.
AnalyzePanelShown(s) == s.activeTab = "analyze"

-----------------------------------------------------------------------------
(* Actions: a handler, then the effects of the render that follows.       *)
(*                                                                         *)
(* A run is one user session in which, besides loading images, moving      *)
(* through the history, clicking on the image and applying styles and     *)
(* adjustments, the user works with the tool of one tab (`tool`, chosen at *)
(* the start and never changed: the retouch form, the mask, the crop       *)
(* selection or the conversation) and switches between that tab and the    *)
(* retouch tab.  This bounds the environment, not the program: no handler  *)
(* reads `tool`.                                                           *)

Op(op, kind, ok) == [ op |-> op, kind |-> kind, ok |-> ok ]

\* No call was made yet, or the last one took nothing from outside.
NoProbe == [ call |-> "none" ]

\* The render that follows a handler which left the cells as t: the effect
\* that starts the initial analysis runs, then the object-URL effects; r and
\* u are the cells after each, bound once.
CommitWith(op, t, p) ==
    \E r \in { TriggerInitialAnalysis(t) } :
        \E u \in { ObjectUrlEffects(Cur, r) } :
            /\ Len(u.pending) <= MaxInflight
            /\ Len(u.chatHistory) <= MaxChat
            /\ u.clock <= MaxFiles
            /\ history' = u.history
            /\ historyIndex' = u.historyIndex
            /\ prompt' = u.prompt
            /\ isLoading' = u.isLoading
            /\ error' = u.error
            /\ editHotspot' = u.editHotspot
            /\ displayHotspot' = u.displayHotspot
            /\ activeTab' = u.activeTab
            /\ chatHistory' = u.chatHistory
            /\ hasInitialAnalysisRun' = u.hasInitialAnalysisRun
            /\ crop' = u.crop
            /\ completedCrop' = u.completedCrop
            /\ maskDataUrl' = u.maskDataUrl
            /\ currentImageUrl' = u.currentImageUrl
            /\ originalImageUrl' = u.originalImageUrl
            /\ objectUrls' = u.objectUrls
            /\ quickEdit' = quickEdit
            /\ pending' = u.pending
            /\ clock' = u.clock
            /\ tool' = tool
            /\ lastOp' = op
            /\ probe' = p

Commit(op, t) == CommitWith(op, t, NoProbe)

Init ==
    /\ history = << >>
    /\ historyIndex = -1
    /\ prompt = << >>
    /\ isLoading = FALSE
    /\ error = None
    /\ editHotspot = None
    /\ displayHotspot = None
    /\ activeTab = "retouch"
    /\ chatHistory = << >>
    /\ hasInitialAnalysisRun = FALSE
    /\ crop = None
    /\ completedCrop = None
    /\ maskDataUrl = None
    /\ currentImageUrl = None
    /\ originalImageUrl = None
    /\ objectUrls = {}
    /\ quickEdit = QuickEditMount
    /\ pending = << >>
    /\ clock = 0
    /\ tool \in Tabs
    /\ lastOp = Op("init", "", TRUE)
    /\ probe = NoProbe

\* StartScreen's onFileSelect: the user hands over an image file.
HandleImageUpload ==
    /\ StartScreenShown(Cur)
    /\ Commit(Op("upload", "", TRUE),
              HandleImageUploadFn(Cur, NewFile(Cur, << "image/png" >>, << "A" >>, 0)))

HandleUploadNew ==
    /\ EditorShown(Cur)
    /\ Commit(Op("uploadNew", "", TRUE), HandleUploadNewFn(Cur))

HandleUndo ==
    /\ EditorShown(Cur)
    /\ Commit(Op("undo", "", CanUndo(Cur)), HandleUndoFn(Cur))

HandleRedo ==
    /\ EditorShown(Cur)
    /\ Commit(Op("redo", "", CanRedo(Cur)), HandleRedoFn(Cur))

HandleReset ==
    /\ EditorShown(Cur)
    /\ Commit(Op("reset", "", Len(history) > 0), HandleResetFn(Cur))

HandleImageClick ==
    /\ EditorShown(Cur)
    /\ \E e \in Clicks :
           Commit(Op("click", "", activeTab = "retouch"),
                  HandleImageClickFn(Cur, Img, e.x, e.y))

SetPrompt ==
    /\ EditorShown(Cur)
    /\ tool = "retouch"
    /\ \E p \in Prompts :
           /\ p # prompt
           /\ Commit(Op("setPrompt", "", TRUE), [ Cur EXCEPT !.prompt = p ])

SetActiveTab ==
    /\ EditorShown(Cur)
    /\ \E tab \in { "retouch", tool } :
           /\ tab # activeTab
           /\ Commit(Op("setActiveTab", "", TRUE), [ Cur EXCEPT !.activeTab = tab ])

\* ReactCrop reports a selection: onChange sets crop, onComplete sets
\* completedCrop.
SelectCrop ==
    /\ EditorShown(Cur)
    /\ tool = "crop"
    /\ \E c \in CropRects :
           Commit(Op("selectCrop", "", TRUE),
                  [ Cur EXCEPT !.crop = Some(c), !.completedCrop = Some(c) ])

\* MaskingCanvas reports the painted mask.
PaintMask ==
    /\ EditorShown(Cur)
    /\ tool = "magic-fill"
    /\ Commit(Op("paintMask", "", TRUE),
              [ Cur EXCEPT !.maskDataUrl = Some(MaskUrl) ])

\* "Try Again" on the error screen: setError(null).
DismissError ==
    /\ ErrorScreenShown(Cur)
    /\ Commit(Op("dismissError", "", TRUE), [ Cur EXCEPT !.error = None ])

Issued(t) == Len(t.pending) > Len(pending)

SubmitGenerate ==
    /\ EditorShown(Cur)
    /\ tool = "retouch"
    /\ RetouchFormEnabled(Cur)
    /\ LET t == HandleGenerateFn(Cur)
       IN  Commit(Op("submit", "edit", Issued(t)), t)

SubmitGenerateFill ==
    /\ EditorShown(Cur)
    /\ tool = "magic-fill"
    /\ MagicFillPanelEnabled(Cur)
    /\ LET t == HandleGenerateFillFn(Cur)
       IN  Commit(Op("submit", "fill", Issued(t)), t)

SubmitApplyStyle ==
    /\ EditorShown(Cur)
    /\ StylePanelEnabled(Cur)
    /\ LET t == HandleApplyStyleFn(Cur)
       IN  Commit(Op("submit", "style", Issued(t)), t)

SubmitApplyAdjustment ==
    /\ EditorShown(Cur)
    /\ AdjustmentPanelEnabled(Cur)
    /\ LET t == HandleApplyAdjustmentFn(Cur)
       IN  Commit(Op("submit", "adjust", Issued(t)), t)

SubmitMessage ==
    /\ EditorShown(Cur)
    /\ tool = "analyze"
    /\ AnalyzePanelShown(Cur)
    /\ AnalyzePanelEnabled(Cur)
    /\ LET t == HandleSendMessageFn(Cur, UserMessage)
       IN  Commit(Op("submit", "analyze", Issued(t)), t)

HandleApplyCrop ==
    /\ EditorShown(Cur)
    /\ tool = "crop"
    /\ CropPanelEnabled(Cur)
    /\ \E dpr \in PixelRatios, hasContext \in BOOLEAN :
           LET t == HandleApplyCropFn(Cur, ImgRef(Cur), dpr, hasContext)
           IN  Commit(Op("crop", "", Len(t.history) # Len(history)
                                       \/ t.history # history), t)

GenerationOutcomes ==
    { Resolved(u) : u \in ResultUrls } \cup { Rejected(e) : e \in Rejections }

\* fileToPart resolves with the image part or rejects.
PartOutcomes == { Resolved(ImagePart) } \cup { Rejected(e) : e \in Rejections }

AnalysisOutcomes ==
    { Resolved(x) : x \in Responses } \cup { Rejected(e) : e \in Rejections }

\* The continuation of request i once its collaborator has settled.
Then(s, i, outcome) ==
    LET r == s.pending[i]
        rest == [ s EXCEPT !.pending = Without(s.pending, i) ]
    IN  CASE r.kind = "edit"   -> HandleGenerateThen(rest, r, outcome)
          [] r.kind = "fill"   -> HandleGenerateFillThen(rest, r, outcome)
          [] r.kind = "style"  -> HandleApplyStyleThen(rest, r, outcome)
          [] r.kind = "adjust" -> HandleApplyAdjustmentThen(rest, r, outcome)
          [] r.kind = "analyze" /\ r.phase = "fileToPart" ->
                HandleSendMessagePart(s, i, r, outcome)
          [] OTHER -> HandleSendMessageThen(rest, r, outcome)

OutcomesOf(r) ==
    IF r.kind # "analyze" THEN GenerationOutcomes
    ELSE IF r.phase = "fileToPart" THEN PartOutcomes ELSE AnalysisOutcomes

\* Whether the continuation ran to the end of its try block.
Succeeded(r, outcome) ==
    IF r.kind # "analyze" THEN TryDecode(outcome).ok
    ELSE IF r.phase = "fileToPart" THEN outcome.ok
    ELSE AnalysisText(outcome).ok

Resolve ==
    \E i \in 1..Len(pending) :
        \E outcome \in OutcomesOf(pending[i]) :
            Commit(Op(IF pending[i].phase = "fileToPart" THEN "part"
                      ELSE "resolve",
                      pending[i].kind, Succeeded(pending[i], outcome)),
                   Then(Cur, i, outcome))

Next ==
    \/ HandleImageUpload
    \/ HandleUploadNew
    \/ HandleUndo
    \/ HandleRedo
    \/ HandleReset
    \/ HandleImageClick
    \/ SetPrompt
    \/ SetActiveTab
    \/ SelectCrop
    \/ PaintMask
    \/ DismissError
    \/ SubmitGenerate
    \/ SubmitGenerateFill
    \/ SubmitApplyStyle
    \/ SubmitApplyAdjustment
    \/ SubmitMessage
    \/ HandleApplyCrop
    \/ Resolve

Spec == Init /\ [][Next]_vars

\* The orchestrator with what feeds it: loading an image, the inputs of the
\* five submissions, the tab switch and the reset that arm the initial
\* analysis, and the settling of the awaits.
NextLive ==
    \/ HandleImageUpload
    \/ HandleReset
    \/ HandleImageClick
    \/ SetPrompt
    \/ SetActiveTab
    \/ PaintMask
    \/ DismissError
    \/ SubmitGenerate
    \/ SubmitGenerateFill
    \/ SubmitApplyStyle
    \/ SubmitApplyAdjustment
    \/ SubmitMessage
    \/ Resolve

\* The collaborators settle: every await in flight is resolved or rejected
\* in the end.
SpecLive == Init /\ [][NextLive]_vars /\ WF_vars(Resolve)

-----------------------------------------------------------------------------
(* The history stack and the object URLs made for it: what loads and       *)
(* appends images, what moves the cursor, and the download.                *)

\* The Download button of the editor.
HandleDownload ==
    /\ EditorShown(Cur)
    /\ CommitWith(Op("download", "", TRUE), HandleDownloadFn(Cur),
                  [ call |-> "download", href |-> HandleDownloadLink(Cur) ])

NextHandles ==
    \/ HandleImageUpload
    \/ HandleUploadNew
    \/ HandleUndo
    \/ HandleRedo
    \/ HandleReset
    \/ SelectCrop
    \/ HandleApplyCrop
    \/ SubmitApplyStyle
    \/ SubmitApplyAdjustment
    \/ Resolve
    \/ HandleDownload

SpecHandles == Init /\ [][NextHandles]_vars

-----------------------------------------------------------------------------
(* The hotspot pair and everything that sets or clears it: clicks on the   *)
(* displayed image, loads, moves of the cursor, and the submissions that   *)
(* append while a hotspot may be set.                                      *)

\* The clicks of a run: the <img> as laid out when it is clicked, and the
\* point clicked.
HotspotClicks ==
    { [ img |-> Img, x |-> 2, y |-> 1 ],
      [ img |-> [ naturalWidth |-> 6, naturalHeight |-> 3,
                  clientWidth  |-> 2, clientHeight  |-> 3 ], x |-> 1, y |-> 2 ] }

\* onClick of the displayed image.
ClickHotspot ==
    /\ EditorShown(Cur)
    /\ \E e \in HotspotClicks :
           CommitWith(Op("click", "", activeTab = "retouch"),
                      HandleImageClickFn(Cur, e.img, e.x, e.y),
                      [ call |-> "click", img |-> e.img,
                        x |-> e.x, y |-> e.y ])

NextHotspot ==
    \/ HandleImageUpload
    \/ HandleUploadNew
    \/ HandleUndo
    \/ HandleRedo
    \/ HandleReset
    \/ ClickHotspot
    \/ SetPrompt
    \/ SetActiveTab
    \/ SubmitGenerate
    \/ SubmitApplyStyle
    \/ Resolve

SpecHotspot == Init /\ [][NextHotspot]_vars

-----------------------------------------------------------------------------
(* QuickEditPanel on its own: App stays as mounted, the panel's handlers   *)
(* run as its JSX lets them.                                               *)

QuickCur ==
    [ imageFile |-> quickEdit.imageFile, imageUrl |-> quickEdit.imageUrl,
      prompt |-> quickEdit.prompt, isLoading |-> quickEdit.isLoading,
      error |-> quickEdit.error, resultImageUrl |-> quickEdit.resultImageUrl,
      pending |-> quickEdit.pending, files |-> quickEdit.files,
      objectUrls |-> objectUrls ]

QuickCommit(op, t) ==
    /\ t.files <= MaxQuickFiles
    /\ Len(t.pending) <= MaxInflight
    /\ quickEdit' = [ f \in DOMAIN quickEdit |-> t[f] ]
    /\ objectUrls' = t.objectUrls
    /\ lastOp' = op
    /\ probe' = NoProbe
    /\ UNCHANGED << history, historyIndex, prompt, isLoading, error,
                    editHotspot, displayHotspot, activeTab, chatHistory,
                    hasInitialAnalysisRun, crop, completedCrop, maskDataUrl,
                    currentImageUrl, originalImageUrl, pending, clock, tool >>

\* The file input's onChange and the drop zone's onDrop
\* (QuickEditPanel.tsx:81, 95): no file, or a new File of some type.
QuickFileSelect ==
    \E file \in { None } \cup { Some(QuickFile(QuickCur, ty)) :
                                   ty \in QuickFileTypes } :
        QuickCommit(Op("quickSelect", "",
                       file # None
                       /\ StartsWith(TheValue(file).type, << "image/" >>)),
                    [ QuickHandleFileChange(QuickCur, file) EXCEPT
                        !.files = IF file = None THEN @ ELSE @ + 1 ])

\* The prompt input (QuickEditPanel.tsx:97-104).
QuickSetPrompt ==
    /\ ~(quickEdit.isLoading \/ quickEdit.imageFile = None)
    /\ \E v \in Prompts :
           /\ v # quickEdit.prompt
           /\ QuickCommit(Op("quickPrompt", "", TRUE),
                          [ QuickCur EXCEPT !.prompt = v ])

\* The Generate button (QuickEditPanel.tsx:105-111).
QuickGenerate ==
    /\ ~(quickEdit.isLoading \/ quickEdit.imageFile = None
          \/ Trim(quickEdit.prompt) = << >>)
    /\ QuickCommit(Op("quickGenerate", "", TRUE),
                   QuickHandleGenerateFn(QuickCur))

\* generateStyledImage settles.
QuickResolve ==
    \E i \in 1..Len(quickEdit.pending) :
        \E outcome \in QuickOutcomes(quickEdit.pending[i]) :
            QuickCommit(Op("quickResolve", "", outcome.ok),
                        QuickHandleGenerateThen(QuickCur, i, outcome))

\* The panel is unmounted and mounted again: the cells start over, the
\* awaits of the old instance set nothing, and no effect cleanup exists
\* that would touch the URL store.
QuickRemount ==
    /\ quickEdit # [ QuickEditMount EXCEPT !.files = quickEdit.files ]
    /\ QuickCommit(Op("quickRemount", "", TRUE),
                   [ QuickCur EXCEPT !.imageFile = None, !.imageUrl = None,
                                     !.prompt = << >>, !.isLoading = FALSE,
                                     !.error = None,
                                     !.resultImageUrl = None,
                                     !.pending = << >> ])

NextQuickEdit ==
    \/ QuickFileSelect
    \/ QuickSetPrompt
    \/ QuickGenerate
    \/ QuickResolve
    \/ QuickRemount

SpecQuickEdit == Init /\ [][NextQuickEdit]_vars

-----------------------------------------------------------------------------
(* The callbacks of App called directly, whatever renderContent shows: the  *)
(* contract of each handler by itself.  The panels' own guards stay.        *)

CallImageUpload ==
    Commit(Op("upload", "", TRUE),
           HandleImageUploadFn(Cur, NewFile(Cur, << "image/png" >>, << "A" >>, 0)))

CallUploadNew == Commit(Op("uploadNew", "", TRUE), HandleUploadNewFn(Cur))

CallUndo == Commit(Op("undo", "", CanUndo(Cur)), HandleUndoFn(Cur))

CallRedo == Commit(Op("redo", "", CanRedo(Cur)), HandleRedoFn(Cur))

CallReset == Commit(Op("reset", "", Len(history) > 0), HandleResetFn(Cur))

\* addImageToHistory(newImageFile), with the closure of the current render
CallAddImageToHistory ==
    Commit(Op("append", "", TRUE),
           AddImageToHistory(Cur, Cur,
                             NewFile(Cur, << "image/png" >>, << "B" >>, 0)))

CallImageClick ==
    /\ tool = "retouch"
    /\ \E e \in Clicks :
           Commit(Op("click", "", activeTab = "retouch"),
                  HandleImageClickFn(Cur, Img, e.x, e.y))

CallSetPrompt ==
    /\ tool = "retouch"
    /\ \E p \in Prompts :
           /\ p # prompt
           /\ Commit(Op("setPrompt", "", TRUE), [ Cur EXCEPT !.prompt = p ])

CallSetMaskDataUrl ==
    /\ tool = "magic-fill"
    /\ Commit(Op("paintMask", "", TRUE),
              [ Cur EXCEPT !.maskDataUrl = Some(MaskUrl) ])

CallGenerate ==
    /\ tool = "retouch"
    /\ RetouchFormEnabled(Cur)
    /\ LET t == HandleGenerateFn(Cur)
       IN  Commit(Op("submit", "edit", Issued(t)), t)

CallGenerateFill ==
    /\ tool = "magic-fill"
    /\ MagicFillPanelEnabled(Cur)
    /\ LET t == HandleGenerateFillFn(Cur)
       IN  Commit(Op("submit", "fill", Issued(t)), t)

CallApplyStyle ==
    /\ tool = "styles"
    /\ StylePanelEnabled(Cur)
    /\ LET t == HandleApplyStyleFn(Cur)
       IN  Commit(Op("submit", "style", Issued(t)), t)

CallApplyAdjustment ==
    /\ tool = "adjust"
    /\ AdjustmentPanelEnabled(Cur)
    /\ LET t == HandleApplyAdjustmentFn(Cur)
       IN  Commit(Op("submit", "adjust", Issued(t)), t)

CallSendMessage ==
    /\ tool = "analyze"
    /\ AnalyzePanelEnabled(Cur)
    /\ LET t == HandleSendMessageFn(Cur, UserMessage)
       IN  Commit(Op("submit", "analyze", Issued(t)), t)

NextDirect ==
    \/ CallImageUpload
    \/ CallUploadNew
    \/ CallUndo
    \/ CallRedo
    \/ CallReset
    \/ CallAddImageToHistory
    \/ CallImageClick
    \/ CallSetPrompt
    \/ CallSetMaskDataUrl
    \/ CallGenerate
    \/ CallGenerateFill
    \/ CallApplyStyle
    \/ CallApplyAdjustment
    \/ CallSendMessage
    \/ Resolve

SpecDirect == Init /\ [][NextDirect]_vars

-----------------------------------------------------------------------------
(* handleImageClick over the images and the points a click can come from.  *)

\* The largest natural and the largest laid-out size of an image.
MaxNatural == 4

MaxClient == 4

\* The scenario of the design: 800x600 shown at 400x300, clicked at
\* (100,150).
ScenarioImg == [ naturalWidth |-> 800, naturalHeight |-> 600,
                 clientWidth  |-> 400, clientHeight  |-> 300 ]

ScenarioClick == [ x |-> 100, y |-> 150 ]

\* e.currentTarget: an <img> that may not be laid out yet (client size 0).
Imgs ==
    { [ naturalWidth |-> nw, naturalHeight |-> nh,
        clientWidth  |-> cw, clientHeight  |-> ch ] :
        nw \in 1..MaxNatural, nh \in 1..MaxNatural,
        cw \in 0..MaxClient,  ch \in 0..MaxClient }
      \cup { ScenarioImg }

\* e.clientX - rect.left, e.clientY - rect.top: a point of the element.
ClickPoints(img) ==
    IF img = ScenarioImg THEN { ScenarioClick }
    ELSE { [ x |-> x, y |-> y ] :
             x \in 0..img.clientWidth, y \in 0..img.clientHeight }

\* The editor with an image loaded, on the retouch tab; the <img> that shows
\* it keeps its sizes for the run.
InitPoint ==
    /\ history = << NewFile([ clock |-> 0 ], << "image/png" >>, << "A" >>, 0) >>
    /\ historyIndex = 0
    /\ prompt = << >>
    /\ isLoading = FALSE
    /\ error = None
    /\ editHotspot = None
    /\ displayHotspot = None
    /\ activeTab = "retouch"
    /\ chatHistory = << >>
    /\ hasInitialAnalysisRun = FALSE
    /\ crop = None
    /\ completedCrop = None
    /\ maskDataUrl = None
    /\ currentImageUrl = Mounted(history, 0).currentImageUrl
    /\ originalImageUrl = Mounted(history, 0).originalImageUrl
    /\ objectUrls = Mounted(history, 0).objectUrls
    /\ quickEdit = QuickEditMount
    /\ pending = << >>
    /\ clock = 1
    /\ tool = "retouch"
    /\ lastOp = Op("upload", "", TRUE)
    /\ \E img \in Imgs : probe = [ call |-> "mount", img |-> img ]

ClickPoint ==
    \E e \in ClickPoints(probe.img) :
        CommitWith(Op("click", "", TRUE),
                   HandleImageClickFn(Cur, probe.img, e.x, e.y),
                   [ call |-> "click", img |-> probe.img,
                     x |-> e.x, y |-> e.y ])

NextPoint == ClickPoint

SpecPoint == InitPoint /\ [][NextPoint]_vars

-----------------------------------------------------------------------------
(* handleApplyCrop over the selections, images and pixel ratios it can meet. *)

\* The largest width and height of a selection.
MaxCrop == 3

\* The scenario of the design: the selection (50,50,100,80) at density 2.
ScenarioCrop == [ x |-> 50, y |-> 50, width |-> 100, height |-> 80 ]

\* The <img> the selection is made on: laid out, shown at, below or above
\* its natural size.
CropImgs ==
    { [ naturalWidth |-> nw, naturalHeight |-> nh,
        clientWidth  |-> cw, clientHeight  |-> ch ] :
        nw \in { 1, MaxNatural }, nh \in { 1, MaxNatural },
        cw \in 1..MaxClient,      ch \in 1..MaxClient }
      \cup { ScenarioImg }

\* What ReactCrop can report for the image: a rectangle inside the element
\* (an empty one after a click without a drag), or nothing yet.
SelectionsOn(img) ==
    IF img = ScenarioImg THEN { Some(ScenarioCrop) }
    ELSE { None } \cup
         { Some([ x |-> p, y |-> p, width |-> w, height |-> h ]) :
             p \in 0..1,
             w \in 0..(IF img.clientWidth < MaxCrop
                       THEN img.clientWidth ELSE MaxCrop),
             h \in 0..(IF img.clientHeight < MaxCrop
                       THEN img.clientHeight ELSE MaxCrop) }

InitCrop ==
    /\ history = << NewFile([ clock |-> 0 ], << "image/png" >>, << "A" >>, 0) >>
    /\ historyIndex = 0
    /\ prompt = << >>
    /\ isLoading = FALSE
    /\ error = None
    /\ editHotspot = None
    /\ displayHotspot = None
    /\ activeTab = "crop"
    /\ chatHistory = << >>
    /\ hasInitialAnalysisRun = FALSE
    /\ pending = << >>
    /\ clock = 1
    /\ tool = "crop"
    /\ lastOp = Op("selectCrop", "", TRUE)
    /\ maskDataUrl = None
    /\ currentImageUrl = Mounted(history, 0).currentImageUrl
    /\ originalImageUrl = Mounted(history, 0).originalImageUrl
    /\ objectUrls = Mounted(history, 0).objectUrls
    /\ quickEdit = QuickEditMount
    /\ \E img \in CropImgs :
          /\ probe = [ call |-> "mount", img |-> img ]
          /\ completedCrop \in SelectionsOn(img)
    /\ crop = completedCrop

\* The Apply Crop button, in the render that holds the selection.
ApplyCrop ==
    \E dpr \in PixelRatios, hasContext \in BOOLEAN :
        LET t == HandleApplyCropFn(Cur, Some(probe.img), dpr, hasContext)
        IN  CommitWith(Op("crop", "", t.history # history), t,
                       [ call |-> "crop", img |-> probe.img,
                         completedCrop |-> completedCrop,
                         devicePixelRatio |-> dpr,
                         hasContext |-> hasContext,
                         canvas |-> IF completedCrop = None THEN None
                                    ELSE Some(CropCanvas(TheValue(completedCrop),
                                                         probe.img, dpr)) ])

NextCrop == ApplyCrop

SpecCrop == InitCrop /\ [][NextCrop]_vars

-----------------------------------------------------------------------------
(* Properties. *)

\* The useState cells.
cells == << history, historyIndex, prompt, isLoading, error, editHotspot,
            displayHotspot, activeTab, chatHistory, hasInitialAnalysisRun,
            crop, completedCrop, maskDataUrl >>

\* The step appended to history: a generation resolved into a new image, or
\* a crop was committed.
AppendStep ==
    /\ lastOp'.ok
    /\ \/ lastOp'.op = "resolve" /\ lastOp'.kind # "analyze"
       \/ lastOp'.op = "crop"

\* The last step appended to history.
Appended ==
    /\ lastOp.ok
    /\ \/ lastOp.op = "resolve" /\ lastOp.kind # "analyze"
       \/ lastOp.op = "crop"

\* The step settled a submission with a failure.
FailureStep == lastOp'.op \in { "resolve", "part" } /\ ~lastOp'.ok

TransientCleared ==
    /\ crop = None
    /\ completedCrop = None
    /\ maskDataUrl = None
    /\ editHotspot = None
    /\ displayHotspot = None

\* s after k calls of handleRedo
RECURSIVE RedoTimes(_, _)
RedoTimes(s, k) == IF k = 0 THEN s ELSE HandleRedoFn(RedoTimes(s, k - 1))

\* C1: in every reachable state the cursor satisfies
\* -1 <= historyIndex < history.length, and it is -1 exactly when history is
\* empty.
C1_CursorInRange ==
    /\ -1 <= historyIndex
    /\ historyIndex < Len(history)
    /\ (historyIndex = -1) <=> (history = << >>)

\* C1 witness: a submission resolved and appended a third entry.
C1_Witness ==
    /\ lastOp.op = "resolve" /\ lastOp.ok /\ lastOp.kind # "analyze"
    /\ Len(history) = 3
    /\ historyIndex = 2

\* C2 (as claimed): an append on a non-empty stack with sequence S and cursor
\* c at the moment it takes effect yields S[0..c] followed by the buffer,
\* the cursor on the new last index, and redo disabled.
C2_AppendAtCursor ==
    [][ (AppendStep /\ history # << >>) =>
          /\ Len(history') = historyIndex + 2
          /\ SubSeq(history', 1, historyIndex + 1)
               = SubSeq(history, 1, historyIndex + 1)
          /\ historyIndex' = Len(history') - 1
          /\ ~(historyIndex' < Len(history') - 1) ]_vars

\* C3: handleUndo at index 0 and handleRedo at the last index change
\* nothing; otherwise they move the cursor by exactly one; neither changes
\* history; canUndo / canRedo hold exactly when the call moves the cursor.
C3_UndoRedoStep ==
    [][ /\ lastOp'.op = "undo" =>
             /\ history' = history
             /\ CanUndo(Cur) <=> (historyIndex' # historyIndex)
             /\ historyIndex > 0 => historyIndex' = historyIndex - 1
             /\ historyIndex <= 0 => UNCHANGED << cells, pending, clock >>
        /\ lastOp'.op = "redo" =>
             /\ history' = history
             /\ CanRedo(Cur) <=> (historyIndex' # historyIndex)
             /\ historyIndex < Len(history) - 1 =>
                  historyIndex' = historyIndex + 1
             /\ historyIndex >= Len(history) - 1 =>
                  UNCHANGED << cells, pending, clock >> ]_vars

\* C3 witness: handleUndo was called at index 0 of a history that has later
\* entries.
C3_Witness ==
    /\ lastOp.op = "undo" /\ ~lastOp.ok
    /\ historyIndex = 0
    /\ Len(history) >= 2

\* C4: handleReset on a non-empty stack sets the cursor to 0 and leaves the
\* history unchanged, and from there k calls of handleRedo put the cursor on
\* k, for every k up to the last index.
C4_ResetKeepsHistory ==
    [][ (lastOp'.op = "reset" /\ history # << >>) =>
          /\ historyIndex' = 0
          /\ history' = history
          /\ \A k \in 0..(Len(history) - 1) :
                /\ RedoTimes(Cur', k).historyIndex = k
                /\ RedoTimes(Cur', k).history = history ]_vars

\* C4 witness: handleReset ran on a history of three entries.
C4_Witness ==
    /\ lastOp.op = "reset" /\ lastOp.ok
    /\ Len(history) = 3
    /\ historyIndex = 0

\* C5 (as claimed): after every append to history the crop, the completed
\* crop, the mask and both hotspots are cleared.
C5_AppendClearsTransient == Appended => TransientCleared

\* C6 (as claimed): after every handleUndo or handleRedo that moves the
\* cursor and every handleReset on a non-empty stack the crop, the completed
\* crop, the mask and both hotspots are cleared.
C6_NavigationClearsTransient ==
    (lastOp.op \in { "undo", "redo", "reset" } /\ lastOp.ok) => TransientCleared

C8_SingleFlight ==
    /\ Len(pending) <= 1
    /\ isLoading <=> (pending # << >>)

\* C8 witness: the initial analysis started by the effect at the moment the
\* previous submission resolved.
C8_Witness ==
    /\ lastOp.op = "resolve" /\ lastOp.kind # "analyze"
    /\ Len(pending) = 1
    /\ pending[1].kind = "analyze"
    /\ pending[1].message = InitialAnalysisMessage

\* C9 (as claimed): while a submission is in flight no handleUndo or
\* handleRedo changes the cursor.
C9_NoUndoRedoWhileSubmitting ==
    [][ (pending # << >> /\ lastOp'.op \in { "undo", "redo" }) =>
          historyIndex' = historyIndex ]_vars

\* C10 (as claimed): when a submission fails the orchestrator is idle with
\* an error recorded, and history and cursor are what they were when the
\* submission was made.
C10_FailureRestores ==
    [][ (FailureStep /\ Len(pending) = 1) =>
          /\ ~isLoading'
          /\ error' # None
          /\ history' = pending[1].closure.history
          /\ historyIndex' = pending[1].closure.historyIndex ]_vars

\* The prompt is empty or holds only white space.
Blank(str) == \A i \in 1..Len(str) : str[i] = " "

\* A precondition of the submission of this kind does not hold.
PreconditionViolated(kind) ==
    \/ history = << >>
    \/ kind = "edit" /\ (Blank(prompt) \/ editHotspot = None)
    \/ kind = "fill" /\ maskDataUrl = None

\* C11: a submission whose preconditions are violated is rejected at once:
\* an error is recorded, isLoading stays false, no collaborator request is
\* issued, and history and cursor are unchanged.
C11_PreconditionRejected ==
    [][ (lastOp'.op = "submit" /\ PreconditionViolated(lastOp'.kind)) =>
          /\ error' # None
          /\ ~isLoading /\ ~isLoading'
          /\ pending' = pending
          /\ history' = history
          /\ historyIndex' = historyIndex ]_vars

\* C11 witness: a retouch was submitted with an image and a hotspot but a
\* prompt of white space only, and was rejected.
C11_Witness ==
    /\ lastOp.op = "submit" /\ lastOp.kind = "edit" /\ ~lastOp.ok
    /\ history # << >>
    /\ editHotspot # None
    /\ prompt = << " " >>
    /\ error # None
    /\ pending = << >>

\* The conversation log as it was when the submission r was made: r.chat is
\* what the closure holds, with the user turn once it has been added.
LogBefore(r) == IF r.phase = "fileToPart" THEN r.chat ELSE DropLast(r.chat)

\* The step settled the analysis submission with a failure.
AnalysisFailureStep ==
    /\ Len(pending) = 1
    /\ lastOp'.op \in { "resolve", "part" }
    /\ lastOp'.kind = "analyze"
    /\ ~lastOp'.ok

\* C12 (as claimed): when an analysis submission fails, the conversation log
\* equals the log as it was before the submission, an error message is set,
\* and history and cursor are unchanged.
C12_AnalysisFailureRetracts ==
    [][ AnalysisFailureStep =>
          /\ chatHistory' = LogBefore(pending[1])
          /\ error' # None
          /\ history' = history
          /\ historyIndex' = historyIndex ]_vars

\* C13 (as claimed): on an empty stack addImageToHistory, handleUndo,
\* handleRedo and handleReset are no-ops: the sequence stays empty and the
\* cursor stays -1.
C13_EmptyStackNoOps ==
    [][ (/\ history = << >>
         /\ historyIndex = -1
         /\ lastOp'.op \in { "append", "undo", "redo", "reset" }) =>
          /\ history' = << >>
          /\ historyIndex' = -1 ]_vars

Abs(n) == IF n < 0 THEN -n ELSE n

\* r is an integer nearest to num / den (den > 0).
Nearest(r, num, den) == 2 * Abs(r * den - num) <= den

\* The last call was a click on an image whose laid-out size is positive.
ClickedLaidOut ==
    /\ probe.call = "click"
    /\ probe.img.clientWidth > 0
    /\ probe.img.clientHeight > 0

\* C14: a click at (localX, localY) on an image of positive rendered size
\* records the natural-space hotspot (round(localX * nw / rw),
\* round(localY * nh / rh)), rounded to a nearest integer, and the display
\* hotspot (localX, localY); 800x600 shown at 400x300 and clicked at
\* (100,150) gives (200,300).
C14_HotspotMapping ==
    ClickedLaidOut =>
        /\ displayHotspot = Some([ x |-> probe.x, y |-> probe.y ])
        /\ editHotspot # None
        /\ LET h == TheValue(editHotspot)
           IN  /\ h.x.kind = "finite"
               /\ h.y.kind = "finite"
               /\ Nearest(h.x.n, probe.x * probe.img.naturalWidth,
                          probe.img.clientWidth)
               /\ Nearest(h.y.n, probe.y * probe.img.naturalHeight,
                          probe.img.clientHeight)
               /\ (probe.img = ScenarioImg) => (h.x.n = 200 /\ h.y.n = 300)

\* C14 witness: the scenario's click was made and mapped to (200,300).
C14_Witness ==
    /\ probe.call = "click"
    /\ probe.img = ScenarioImg
    /\ probe.x = 100 /\ probe.y = 150
    /\ editHotspot = Some([ x |-> Finite(200), y |-> Finite(300) ])

\* r natural units, taken back through the inverse scale, are within one
\* rendered unit of the rendered coordinate p: |r * den / num - p| <= 1.
BackWithinOne(r, p, num, den) == Abs(r * den - p * num) <= num

\* C15 (as claimed): for all positive rendered and natural dimensions and
\* every point of the element, the natural-space point mapped back through
\* the inverse scale is within 1 unit of the rendered point on each axis.
C15_RoundTripWithinOne ==
    ClickedLaidOut =>
        LET h == TheValue(editHotspot)
        IN  /\ BackWithinOne(h.x.n, probe.x, probe.img.naturalWidth,
                             probe.img.clientWidth)
            /\ BackWithinOne(h.y.n, probe.y, probe.img.naturalHeight,
                             probe.img.clientHeight)

\* C15 (amended): on an axis whose rendered dimension is at most twice the
\* natural one the round trip is within 1 unit of the rendered coordinate.
C15_RoundTripWhenNotEnlarged ==
    ClickedLaidOut =>
        LET h == TheValue(editHotspot)
        IN  /\ (probe.img.clientWidth <= 2 * probe.img.naturalWidth) =>
                  BackWithinOne(h.x.n, probe.x, probe.img.naturalWidth,
                                probe.img.clientWidth)
            /\ (probe.img.clientHeight <= 2 * probe.img.naturalHeight) =>
                  BackWithinOne(h.y.n, probe.y, probe.img.naturalHeight,
                                probe.img.clientHeight)

\* C15 witness: a click whose scaled coordinate 3/2 was rounded, on an image
\* shown smaller than its natural size.
C15_Witness ==
    /\ probe.call = "click"
    /\ probe.img.naturalWidth = 3 /\ probe.img.clientWidth = 2
    /\ probe.img.clientHeight > 0
    /\ probe.x = 1
    /\ TheValue(editHotspot).x = Finite(2)

\* C20 (as claimed): a click on an image whose rendered width or height is
\* zero records no natural-space hotspot.
C20_ZeroSizeRecordsNothing ==
    [][ (/\ probe'.call = "click"
         /\ (probe'.img.clientWidth = 0 \/ probe'.img.clientHeight = 0)) =>
          editHotspot' = editHotspot ]_vars

\* The density of the claim: the reported ratio, 1 when it is 0 or missing.
Density(devicePixelRatio) ==
    IF devicePixelRatio.num = 0 THEN Ratio(1, 1) ELSE devicePixelRatio

\* The step committed a crop.
CropCommitted == lastOp'.op = "crop" /\ lastOp'.ok

\* C16 (as claimed): a successful crop commit with selection (x, y, w, h)
\* and density d produces a raster of exactly w*d by h*d pixels and appends
\* exactly one entry to history.
C16_RasterExact ==
    [][ CropCommitted =>
          LET c == TheValue(probe'.completedCrop)
              d == Density(probe'.devicePixelRatio)
              canvas == TheValue(probe'.canvas)
          IN  /\ canvas.width * d.den = c.width * d.num
              /\ canvas.height * d.den = c.height * d.num
              /\ Len(history') = Len(history) + 1
              /\ SubSeq(history', 1, Len(history)) = history ]_vars

\* C16 (amended): a successful crop commit produces a raster of
\* floor(w*d) by floor(h*d) pixels, both positive, whatever the natural and
\* rendered size of the image, and appends exactly one entry to history;
\* the selection (50,50,100,80) at density 2 gives 200x160.
C16_RasterFloor ==
    [][ CropCommitted =>
          LET c == TheValue(probe'.completedCrop)
              d == Density(probe'.devicePixelRatio)
              canvas == TheValue(probe'.canvas)
          IN  /\ canvas.width = (c.width * d.num) \div d.den
              /\ canvas.height = (c.height * d.num) \div d.den
              /\ canvas.width > 0 /\ canvas.height > 0
              /\ Len(history') = Len(history) + 1
              /\ SubSeq(history', 1, Len(history)) = history
              /\ (c = ScenarioCrop /\ d = Ratio(2, 1)) =>
                    (canvas.width = 200 /\ canvas.height = 160) ]_vars

\* C16 witness: the scenario's selection was committed at density 2 as a
\* 200x160 raster and history has gained the entry.
C16_Witness ==
    /\ lastOp.op = "crop" /\ lastOp.ok
    /\ probe.call = "crop"
    /\ probe.completedCrop = Some(ScenarioCrop)
    /\ probe.devicePixelRatio = Ratio(2, 1)
    /\ TheValue(probe.canvas).width = 200
    /\ TheValue(probe.canvas).height = 160
    /\ Len(history) = 2

\* C17 (as claimed): applying a crop with no completed selection, or with
\* one of zero width or zero height, reports the 'no region selected' error
\* and leaves history and cursor unchanged.
C17_EmptySelectionReported ==
    [][ (/\ lastOp'.op = "crop"
         /\ \/ completedCrop = None
            \/ TheValue(completedCrop).width = 0
            \/ TheValue(completedCrop).height = 0) =>
          /\ error' = Some(<< "Please select an area to crop." >>)
          /\ history' = history
          /\ historyIndex' = historyIndex ]_vars

\* The step just taken ran a handler to its end after its await settled:
\* its finally block, or the catch of fileToPart, has set isLoading false
\* (if isLoading holds all the same, the effect has started the initial
\* analysis in the render that followed).
Settled ==
    \/ lastOp.op = "resolve"
    \/ lastOp.op = "part" /\ ~lastOp.ok

\* C18: every submission that enters the submitting state returns to idle,
\* by success or by failure, provided the collaborators settle.
C18_EventuallyIdle == isLoading ~> (~isLoading \/ Settled)

\* C18 witness: an analysis went through both of its awaits and the
\* orchestrator is idle again.
C18_Witness ==
    /\ lastOp.op = "resolve" /\ lastOp.kind = "analyze" /\ lastOp.ok
    /\ ~isLoading
    /\ pending = << >>
    /\ Len(chatHistory) = 2

\* After the step the orchestrator is idle, or was idle for the render in
\* which the effect started the initial analysis.
IdleAfter ==
    \/ ~isLoading' /\ pending' = << >>
    \/ /\ Len(pending') = 1
       /\ pending'[1].kind = "analyze"
       /\ pending'[1].message = InitialAnalysisMessage
       /\ pending'[1].phase = "fileToPart"

\* C19 (as claimed): when a submission resolves successfully the
\* orchestrator is idle, the error slot is empty, and history has grown by
\* the appended buffer: the entries up to the cursor, then the new buffer,
\* which is the current image.
C19_SuccessAppends ==
    [][ AppendStep =>
          /\ IdleAfter
          /\ error' = None
          /\ Len(history') = historyIndex + 2
          /\ SubSeq(history', 1, historyIndex + 1)
               = SubSeq(history, 1, historyIndex + 1)
          /\ history'[Len(history')].id = clock'
          /\ clock' = clock + 1
          /\ historyIndex' = Len(history') - 1 ]_vars


-----------------------------------------------------------------------------
(* C21 *)

\* The live object URLs that refer to `file`.
HandlesOf(file) == { u \in objectUrls : u.file = file }

\* C21: in every reachable state at most one object URL is live for the
\* buffer of any one history slot, and every live object URL is the one its
\* effect holds now (currentImageUrl or originalImageUrl): the URL an effect
\* replaced and the URL handleDownload made are revoked.
C21_OneHandlePerSlot ==
    /\ \A i \in 1..Len(history) : Cardinality(HandlesOf(history[i])) <= 1
    /\ objectUrls \subseteq (currentImageUrl \cup originalImageUrl)

-----------------------------------------------------------------------------
(* C22 *)

\* C22: at most one object URL made by handleFileSelect is live, whatever
\* files were selected and whether the panel was unmounted: the URL of the
\* image shown before is revoked when another image is selected, and the
\* URL of the image shown is revoked when the panel unmounts.
C22_QuickUrlRevoked ==
    /\ Cardinality(objectUrls) <= 1
    /\ objectUrls \subseteq quickEdit.imageUrl

-----------------------------------------------------------------------------
(* C23 *)

\* The natural-space point handleImageClick computes for the click the
\* probe holds.
MappedClick(p) ==
    [ x |-> ScaleRound(p.x, p.img.naturalWidth, p.img.clientWidth),
      y |-> ScaleRound(p.y, p.img.naturalHeight, p.img.clientHeight) ]

\* C23: the natural-space hotspot and the display-space hotspot are both
\* null or both set, and no step changes one without the other: a step that
\* changes either leaves both null, or is a click that sets displayHotspot
\* to the clicked point and editHotspot to that point mapped to natural
\* space.
C23_HotspotsPaired ==
    [][ /\ (editHotspot' = None) = (displayHotspot' = None)
        /\ (editHotspot' # editHotspot \/ displayHotspot' # displayHotspot) =>
              \/ editHotspot' = None /\ displayHotspot' = None
              \/ /\ probe'.call = "click"
                 /\ displayHotspot' = Some([ x |-> probe'.x, y |-> probe'.y ])
                 /\ editHotspot' = Some(MappedClick(probe')) ]_vars

\* A second image is in the history, the cursor is back on the first, and
\* the image was just clicked at (2,1): both hotspots are set.
C23_Witness ==
    /\ probe.call = "click" /\ probe.x = 2 /\ probe.y = 1
    /\ Len(history) >= 2 /\ historyIndex = 0
    /\ displayHotspot = Some([ x |-> 2, y |-> 1 ])
    /\ editHotspot = Some(MappedClick(probe))

-----------------------------------------------------------------------------
(* C24 *)

\* Entry i of h was made from entry i - 1: a File records in `from` the
\* identity of the image that was sent to the collaborator, or that the
\* crop was cut from.
MadeFromPrevious(h, i) == h[i].from = h[i - 1].id

\* C24: whatever the interleaving of submissions, their settling, crop
\* commits, undo, redo, reset and uploads, every history entry after the
\* first was produced from the entry before it; in particular a step that
\* appends puts its result right after the image it was produced from.
C24_EntriesChained ==
    [][ /\ \A i \in 2..Len(history') : MadeFromPrevious(history', i)
        /\ (AppendStep /\ history # << >>) =>
              /\ Len(history') >= 2
              /\ historyIndex' = Len(history') - 1
              /\ MadeFromPrevious(history', Len(history')) ]_vars

\* A submission has resolved into the third entry of the history, after the
\* second.
C24_Witness ==
    /\ lastOp.op = "resolve" /\ lastOp.ok /\ lastOp.kind # "analyze"
    /\ Len(history) = 3 /\ historyIndex = 2
    /\ history[3].from = history[2].id
    /\ history[2].from = history[1].id

-----------------------------------------------------------------------------
(* C25 *)

\* The turn carries the image: one of its parts is inline data.
CarriesImage(turn) == \E k \in 1..Len(turn.parts) : turn.parts[k].inlineData

\* A conversation log: empty, or begun by a user turn with the image, its
\* turns alternating user, model, so that each model turn has the user turn
\* it answers right before it.
WellFormedLog(log) ==
    /\ Len(log) > 0 => (log[1].role = "user" /\ CarriesImage(log[1]))
    /\ \A k \in 1..Len(log) :
          log[k].role = IF k % 2 = 1 THEN "user" ELSE "model"

\* C25: in every reachable state, also when handleReset, handleImageUpload
\* or handleUploadNew ran while an analysis request was in flight, the
\* conversation log is well formed.
C25_LogWellFormed == WellFormedLog(chatHistory)

-----------------------------------------------------------------------------
(* C26 *)

\* C26: whenever QuickEditPanel holds a result image (resultImageUrl is not
\* null), that result was generated from the imageFile selected now; a
\* selection made while a generation is in flight does not end with the
\* older image's result next to the newly selected image.
C26_ResultOfSelectedImage ==
    quickEdit.resultImageUrl # None =>
        quickEdit.imageFile = Some(TheValue(quickEdit.resultImageUrl).styled)

=============================================================================
